---- MODULE Spec2Model ----
(***************************************************************************)
(* Fixed-point particle fluid (imaginarygarage/Fluid).                     *)
(*                                                                         *)
(* The model follows src/src/fluid.rs: the Q16.16 scalar FixedPt, the      *)
(* vector FixedPtVec2D, Particle and the six stages of Fluid::step.  The   *)
(* second revision of the scalar, src/src/fluid/fixed.rs, differs only in  *)
(* its division and is modelled next to the first.                         *)
(*                                                                         *)
(* A raw value is an i32.  TLC's integers are 32 bits wide and trap on     *)
(* overflow, so every operation that can leave the i32 range is computed   *)
(* in 16-bit halves or 8-bit limbs and wraps modulo 2^32, as the target's  *)
(* release build does (shifts wrap in every build).  Integer division by   *)
(* zero panics in every build; the panic handler of main.rs (panic_halt)   *)
(* stops the program.                                                      *)
(***************************************************************************)
EXTENDS Integers, Sequences, FiniteSets, TLC

----------------------------------------------------------------------------
(* i32 arithmetic *)

I32_MAX == 2147483647
I32_MIN == -2147483647 - 1

\* wrap a value of [-65536, 65535] to a signed 16-bit half
Wrap16(h) == ((h + 32768) % 65536) - 32768

\* i32 `+` (wrapping)
WrappingAdd(a, b) ==
    LET l == (a % 65536) + (b % 65536)
        h == (a \div 65536) + (b \div 65536) + (l \div 65536)
    IN  Wrap16(h) * 65536 + (l % 65536)

\* i32 `-` (wrapping)
WrappingSub(a, b) ==
    LET l == (a % 65536) - (b % 65536)
        h == (a \div 65536) - (b \div 65536) + (l \div 65536)
    IN  Wrap16(h) * 65536 + (l % 65536)

\* the i32 with the given four bytes (b3 most significant)
FromBytes(b3, b2, b1, b0) ==
    (IF b3 >= 128 THEN b3 - 256 ELSE b3) * 16777216 + b2 * 65536 + b1 * 256 + b0

\* schoolbook product, modulo 2^32, of two numbers given by their bytes
\* (a0 and b0 least significant)
MulBytes(a0, a1, a2, a3, b0, b1, b2, b3) ==
    LET p0 == a0 * b0
        p1 == a0 * b1 + a1 * b0 + (p0 \div 256)
        p2 == a0 * b2 + a1 * b1 + a2 * b0 + (p1 \div 256)
        p3 == a0 * b3 + a1 * b2 + a2 * b1 + a3 * b0 + (p2 \div 256)
    IN  FromBytes(p3 % 256, p2 % 256, p1 % 256, p0 % 256)

\* i32 `*` (wrapping), on the bytes of the two's complement representations
WrappingMul(a, b) ==
    MulBytes(a % 256, (a \div 256) % 256, (a \div 65536) % 256, (a \div 16777216) % 256,
             b % 256, (b \div 256) % 256, (b \div 65536) % 256, (b \div 16777216) % 256)

\* i32 `<< 8`: the top byte is shifted out
Shl8(a) == FromBytes((a \div 65536) % 256, (a \div 256) % 256, a % 256, 0)

\* i32 `<< 16`
Shl16(a) == FromBytes((a \div 256) % 256, a % 256, 0, 0)

\* i32 `>> 8` and `>> 16`: arithmetic shifts
Shr8(a) == a \div 256
Shr16(a) == a \div 65536

\* i32 `-a` (wrapping)
WrappingNeg(a) == WrappingSub(0, a)

\* quotient of a by b > 0, rounded toward zero
TruncDivPos(a, b) ==
    IF a >= 0 \/ a % b = 0 THEN a \div b ELSE (a \div b) + 1

\* the outcome of an operation that may panic
Ok(v) == [panic |-> FALSE, value |-> v]
Panic == [panic |-> TRUE, value |-> 0]

\* i32 `/`: rounds toward zero; panics on a zero divisor and on MIN / -1
IntDiv(a, b) ==
    IF b = 0 \/ (a = I32_MIN /\ b = -1) THEN Panic
    ELSE IF b = I32_MIN THEN Ok(IF a = I32_MIN THEN 1 ELSE 0)
    ELSE IF b > 0 THEN Ok(TruncDivPos(a, b))
    ELSE Ok(-TruncDivPos(a, -b))

----------------------------------------------------------------------------
(* FixedPt: raw value of a Q16.16 scalar *)

\* i8 values, and `as i8` of an i32
I8 == -128 .. 127
AsI8(v) == ((v + 128) % 256) - 128

from_i8(value) == Shl16(value)

\* a conversion that rounds toward zero
to_i8_toward_zero(value) == AsI8(IntDiv(value, 65536).value)

\* the shift by HALF_BASE instead of BASE
to_i8_half_shift(value) == AsI8(Shr8(value))

to_i8(value) == AsI8(Shr16(value))

abs(value) == IF value < 0 THEN WrappingNeg(value) ELSE value

add(a, b) == WrappingAdd(a, b)

\* a subtraction that saturates at the ends of the i32 range
sub_saturating(a, b) ==
    IF b > 0 /\ a < I32_MIN + b THEN I32_MIN
    ELSE IF b < 0 /\ a > I32_MAX + b THEN I32_MAX
    ELSE a - b

sub(a, b) == WrappingSub(a, b)

\* a product that shifts one operand by BASE and leaves the other whole
mul_shift_one(a, b) == WrappingMul(Shr16(a), b)

mul(a, b) == WrappingMul(Shr8(a), Shr8(b))

\* fluid.rs: both operands are shifted left by HALF_BASE, then divided
div(a, b) == IntDiv(Shl8(a), Shl8(b))

\* fluid/fixed.rs: the quotient, if there is one, shifted left by HALF_BASE
fixed_div_shift(q) == IF q.panic THEN Panic ELSE Ok(Shl8(q.value))

\* fluid/fixed.rs: the dividend is shifted, divided, and the quotient shifted
fixed_div(a, b) == fixed_div_shift(IntDiv(Shl8(a), b))

\* Div<i32> for FixedPt
div_i32(a, rhs) == IntDiv(a, rhs)

\* the constants of the stepper, as raw values
SQRT_2_MINUS_1 == 27145
dt == 58982
ZERO == from_i8(0)

----------------------------------------------------------------------------
(* FixedPtVec2D *)

Vec(x, y) == [x |-> x, y |-> y]
VecZERO == Vec(ZERO, ZERO)

from_i8s(x, y) == Vec(from_i8(x), from_i8(y))

dot(v, w) == add(mul(v.x, w.x), mul(v.y, w.y))

Max(a, b) == IF a >= b THEN a ELSE b
Min(a, b) == IF a <= b THEN a ELSE b

\* a magnitude that adds the scaled larger component to the smaller
octagonal_swapped(dx, dy) == add(Min(dx, dy), mul(Max(dx, dy), SQRT_2_MINUS_1))

\* magnitude, of the absolute values of the components
octagonal(dx, dy) == add(Max(dx, dy), mul(Min(dx, dy), SQRT_2_MINUS_1))

\* a magnitude of the components as they are, without abs
magnitude_no_abs(v) == octagonal(v.x, v.y)

magnitude(v) == octagonal(abs(v.x), abs(v.y))

vector_to(v, w) == Vec(sub(w.x, v.x), sub(w.y, v.y))

distance_to(v, w) == magnitude(vector_to(v, w))

vec_add(v, w) == Vec(add(v.x, w.x), add(v.y, w.y))

vec_sub(v, w) == Vec(sub(v.x, w.x), sub(v.y, w.y))

vec_mul(v, s) == Vec(mul(v.x, s), mul(v.y, s))

\* the vector of two quotients, unless a division panicked
vec_of_quotients(qx, qy) ==
    IF qx.panic \/ qy.panic THEN Panic ELSE Ok(Vec(qx.value, qy.value))

\* Div<FixedPt> for FixedPtVec2D: x is divided first, then y
vec_div(v, s) == vec_of_quotients(div(v.x, s), div(v.y, s))

\* Div<i32> for FixedPtVec2D, used with the literal 2 only
vec_div_i32(v, rhs) == Vec(div_i32(v.x, rhs).value, div_i32(v.y, rhs).value)

----------------------------------------------------------------------------
(* Particle and Fluid *)

\* bounds of the model
MaxN == 2
MaxSteps == 3

\* Fluid::new arguments explored: the driver's (125, 61), a one-cell box
\* and a box narrower than the initial layout
Dims == {<<125, 61>>, <<1, 1>>, <<17, 61>>}

\* coordinates given to Particle::set_position before the first tick
PlaceX == {0, 3, 40, 127}
PlaceY == {0}

\* gravity vectors given to set_gravity (the schedule of main.rs)
Gravities == {<<0, 0>>, <<0, 1>>, <<1, 0>>, <<-1, 0>>, <<0, -1>>}

\* parameters fixed by Fluid::new, as raw values: from_f32(16.0),
\* from_f32s(3.0, 2.0), from_f32(3.5), from_f32s(0.0, 0.05)
particle_interaction_radius == 1048576
stiffness == [near |-> 196608, far |-> 131072]
target_density == 229376
viscosity == [sigma |-> 0, beta |-> 3276]

PARTICLE_POSITIONS_INIT ==
    <<<<5, 11>>, <<5, 17>>, <<5, 23>>, <<5, 29>>, <<11, 17>>, <<11, 29>>, <<17, 29>>, <<23, 11>>,
       <<23, 17>>, <<23, 23>>, <<23, 29>>, <<29, 11>>, <<35, 11>>, <<41, 11>>, <<41, 17>>, <<41, 23>>,
       <<41, 29>>, <<47, 11>>, <<53, 11>>, <<53, 17>>, <<53, 23>>, <<53, 29>>, <<59, 11>>, <<59, 29>>,
       <<65, 11>>, <<65, 17>>, <<65, 23>>, <<65, 29>>, <<71, 11>>, <<71, 29>>, <<77, 11>>, <<77, 17>>,
       <<77, 23>>, <<77, 29>>, <<83, 11>>, <<83, 29>>, <<89, 17>>, <<89, 23>>, <<95, 14>>, <<95, 20>>,
       <<98, 8>>, <<98, 26>>, <<101, 32>>, <<104, 5>>, <<104, 38>>, <<107, 32>>, <<110, 8>>, <<110, 26>>,
       <<113, 14>>, <<113, 20>>, <<29, 44>>, <<35, 44>>, <<41, 44>>, <<47, 44>>, <<53, 44>>, <<59, 44>>,
       <<65, 44>>, <<71, 44>>, <<77, 44>>, <<83, 44>>, <<89, 44>>, <<95, 44>>, <<29, 50>>, <<35, 50>>,
       <<41, 50>>, <<47, 50>>, <<53, 50>>, <<59, 50>>, <<65, 50>>, <<71, 50>>, <<77, 50>>, <<83, 50>>,
       <<89, 50>>, <<95, 50>>, <<29, 56>>, <<35, 56>>, <<41, 56>>, <<47, 56>>, <<53, 56>>, <<59, 56>>,
       <<65, 56>>, <<71, 56>>, <<77, 56>>, <<83, 56>>, <<89, 56>>, <<95, 56>>>>

NearFar(near, far) == [near |-> near, far |-> far]

\* Particle::new
Particle_new(x, y) ==
    [position          |-> from_i8s(x, y),
     previous_position |-> from_i8s(x, y),
     velocity          |-> from_i8s(0, 0),
     pressure          |-> NearFar(from_i8(0), from_i8(0)),
     density           |-> NearFar(from_i8(0), from_i8(0))]

\* Particle::set_position
set_position(p, x, y) == [p EXCEPT !.position = from_i8s(x, y)]

\* Particle::get_display_position
get_display_position(p) == <<to_i8(p.position.x), to_i8(p.position.y)>>

\* the particle array built by Fluid::new for N = n
new_particles(n) ==
    [i \in 1 .. n |->
        IF i <= Len(PARTICLE_POSITIONS_INIT)
        THEN set_position(Particle_new(0, 0),
                          PARTICLE_POSITIONS_INIT[i][1], PARTICLE_POSITIONS_INIT[i][2])
        ELSE Particle_new(0, 0)]

\* a pair loop that takes every pair for a neighbour
WithinRadius_always(distance) == TRUE

\* the test `distance < self.particle_interaction_radius` of the pair loops
WithinRadius(distance) == distance < particle_interaction_radius

\* apply_gravity
apply_gravity(ps, g) ==
    LET delta_v == vec_mul(g, dt)
    IN  [i \in 1 .. Len(ps) |-> [ps[i] EXCEPT !.velocity = vec_add(@, delta_v)]]

\* apply_viscosity, line 392: the impulse of a closing pair
viscosity_impulse(direction, q, irv) ==
    vec_mul(vec_mul(vec_mul(direction, dt), sub(from_i8(1), q)),
            add(mul(viscosity.sigma, irv), mul(mul(viscosity.beta, irv), irv)))

\* an update that takes the half impulse off both velocities
viscosity_halves_both_off(ps, i, j, half) ==
    Ok([ps EXCEPT ![i].velocity = vec_sub(@, half), ![j].velocity = vec_sub(@, half)])

\* apply_viscosity, lines 393-394: half the impulse off i's velocity and on j's
viscosity_halves(ps, i, j, half) ==
    Ok([ps EXCEPT ![i].velocity = vec_sub(@, half), ![j].velocity = vec_add(@, half)])

\* apply_viscosity, lines 389-395: the pair is touched if irv is positive
viscosity_closing(ps, i, j, distance, direction, irv) ==
    IF ~(irv > ZERO) THEN Ok(ps)
    ELSE viscosity_halves(ps, i, j,
            vec_div_i32(viscosity_impulse(direction,
                                          div(distance, particle_interaction_radius).value,
                                          irv),
                        2))

\* apply_viscosity, lines 385-388: d is `distance_vector / distance`; the
\* "relative velocity" is the vector from particle j's position to particle i's
viscosity_toward(ps, i, j, distance, d) ==
    IF d.panic THEN Panic
    ELSE viscosity_closing(ps, i, j, distance, d.value,
                           dot(vector_to(ps[j].position, ps[i].position), d.value))

\* apply_viscosity, lines 383-385: the radius test, then the direction
viscosity_within(ps, i, j, distance_vector, distance) ==
    IF ~WithinRadius(distance) THEN Ok(ps)
    ELSE viscosity_toward(ps, i, j, distance, vec_div(distance_vector, distance))

\* apply_viscosity, line 382
viscosity_at(ps, i, j, distance_vector) ==
    viscosity_within(ps, i, j, distance_vector, magnitude(distance_vector))

\* the body of apply_viscosity's inner loop for the pair (i, j)
viscosity_pair(ps, i, j) ==
    viscosity_at(ps, i, j, vector_to(ps[i].position, ps[j].position))

\* apply_viscosity: the pairs (i, j), i < j, in loop order; r is the outcome
\* of the pair before
RECURSIVE viscosity_loop(_, _, _)
RECURSIVE viscosity_next(_, _, _)
viscosity_next(r, i, j) ==
    IF r.panic THEN Panic ELSE viscosity_loop(r.value, i, j + 1)

viscosity_loop(ps, i, j) ==
    IF i > Len(ps) THEN Ok(ps)
    ELSE IF j > Len(ps) THEN viscosity_loop(ps, i + 1, i + 2)
    ELSE viscosity_next(viscosity_pair(ps, i, j), i, j)

apply_viscosity(ps) == viscosity_loop(ps, 1, 2)

\* apply_velocity
apply_velocity(ps) ==
    [i \in 1 .. Len(ps) |->
        [ps[i] EXCEPT !.previous_position = ps[i].position,
                      !.position = vec_add(ps[i].position, vec_mul(ps[i].velocity, dt))]]

\* `(radius - distance) / radius` of double_density_relaxation
one_minus_q_of(distance) ==
    div(sub(particle_interaction_radius, distance), particle_interaction_radius).value

\* double_density_relaxation, lines 422-423
density_add(ps, i, one_minus_q) ==
    [ps EXCEPT ![i].density.far = add(@, mul(one_minus_q, one_minus_q)),
               ![i].density.near = add(@, mul(mul(one_minus_q, one_minus_q), one_minus_q))]

\* double_density_relaxation, lines 420-424
density_pair(ps, i, distance) ==
    IF ~WithinRadius(distance) THEN ps
    ELSE density_add(ps, i, one_minus_q_of(distance))

\* double_density_relaxation, density loop of particle i: neighbours j .. N
RECURSIVE density_loop(_, _, _)
density_loop(ps, i, j) ==
    IF j > Len(ps) THEN ps
    ELSE IF i = j THEN density_loop(ps, i, j + 1)
    ELSE density_loop(
            density_pair(ps, i, distance_to(ps[i].position, ps[j].position)), i, j + 1)

\* a far pressure that leaves out the target density
derive_pressure_no_target(ps, i) ==
    [ps EXCEPT ![i].pressure.far = mul(stiffness.far, ps[i].density.far),
               ![i].pressure.near = mul(stiffness.near, ps[i].density.near)]

\* double_density_relaxation, pressure of particle i from its density
derive_pressure(ps, i) ==
    [ps EXCEPT ![i].pressure.far =
                   mul(stiffness.far, sub(ps[i].density.far, target_density)),
               ![i].pressure.near = mul(stiffness.near, ps[i].density.near)]

\* double_density_relaxation, line 442
pressure_impulse(direction, pfar, pnear, one_minus_q) ==
    vec_mul(vec_mul(vec_mul(direction,
                            add(mul(pfar, one_minus_q),
                                mul(mul(pnear, one_minus_q), one_minus_q))),
                    dt),
            dt)

\* an update that moves j by the half impulse and leaves i's displacement alone
displacement_halves_one_sided(ps, displacement, j, half) ==
    Ok([ps |-> [ps EXCEPT ![j].position = vec_add(@, half)],
        displacement |-> displacement])

\* double_density_relaxation, lines 443-444: half the impulse on j's
\* position and off the displacement of i
displacement_halves(ps, displacement, j, half) ==
    Ok([ps |-> [ps EXCEPT ![j].position = vec_add(@, half)],
        displacement |-> vec_sub(displacement, half)])

\* double_density_relaxation, lines 439-444: d is `distance_vector / distance`
displacement_toward(ps, displacement, i, j, one_minus_q, d) ==
    IF d.panic THEN Panic
    ELSE displacement_halves(ps, displacement, j,
            vec_div_i32(pressure_impulse(d.value, ps[i].pressure.far,
                                         ps[i].pressure.near, one_minus_q),
                        2))

\* double_density_relaxation, lines 437-439
displacement_within(ps, displacement, i, j, distance_vector, distance) ==
    IF ~WithinRadius(distance) THEN Ok([ps |-> ps, displacement |-> displacement])
    ELSE displacement_toward(ps, displacement, i, j, one_minus_q_of(distance),
                             vec_div(distance_vector, distance))

\* double_density_relaxation, line 436
displacement_at(ps, displacement, i, j, distance_vector) ==
    displacement_within(ps, displacement, i, j, distance_vector,
                        magnitude(distance_vector))

\* the body of the displacement loop for the neighbour j of i
displacement_pair(ps, displacement, i, j) ==
    displacement_at(ps, displacement, i, j, vector_to(ps[i].position, ps[j].position))

\* double_density_relaxation, displacement loop of particle i: neighbours
\* j .. N; the value is the particles and the accumulated displacement
RECURSIVE displacement_loop(_, _, _, _)
RECURSIVE displacement_next(_, _, _)
displacement_next(r, i, j) ==
    IF r.panic THEN Panic
    ELSE displacement_loop(r.value.ps, r.value.displacement, i, j + 1)

displacement_loop(ps, displacement, i, j) ==
    IF j > Len(ps) THEN Ok([ps |-> ps, displacement |-> displacement])
    ELSE IF i = j THEN displacement_loop(ps, displacement, i, j + 1)
    ELSE displacement_next(displacement_pair(ps, displacement, i, j), i, j)

\* double_density_relaxation: the outer loop from particle i on; r is the
\* outcome of the displacement loop of particle i
RECURSIVE relaxation_loop(_, _)
RECURSIVE relaxation_next(_, _)
relaxation_next(r, i) ==
    IF r.panic THEN Panic
    ELSE relaxation_loop(
            [r.value.ps EXCEPT ![i].position = vec_add(@, r.value.displacement)], i + 1)

relaxation_loop(ps, i) ==
    IF i > Len(ps) THEN Ok(ps)
    ELSE relaxation_next(
            displacement_loop(
                derive_pressure(
                    density_loop([ps EXCEPT ![i].density = NearFar(ZERO, ZERO)], i, 1), i),
                VecZERO, i, 1),
            i)

double_density_relaxation(ps) == relaxation_loop(ps, 1)

\* a clamp that lacks the upper wall
clamp_lower_only(v, max) == IF v < ZERO THEN ZERO ELSE v

\* resolve_collisions, one coordinate
clamp(v, max) ==
    IF v < ZERO THEN ZERO
    ELSE IF v > max THEN max
    ELSE v

\* resolve_collisions
resolve_collisions(ps, xmax, ymax) ==
    [i \in 1 .. Len(ps) |->
        [ps[i] EXCEPT !.position = Vec(clamp(ps[i].position.x, xmax),
                                       clamp(ps[i].position.y, ymax))]]

\* revise_velocity; dt << 8 is not zero, so the division does not panic
revise_velocity(ps) ==
    [i \in 1 .. Len(ps) |->
        [ps[i] EXCEPT !.velocity =
            vec_div(vec_sub(ps[i].position, ps[i].previous_position), dt).value]]

\* FixedPt::from_f32 of a whole number of small magnitude: value * 2^16
from_f32_whole(value) == value * 65536

\* set_gravity(gx, gy): the gravity vector converted once to fixed point
set_gravity(gx, gy) == Vec(from_f32_whole(gx), from_f32_whole(gy))

----------------------------------------------------------------------------
(* state *)

VARIABLES
    particles,   \* Fluid.particles
    gravity,     \* Fluid.gravity
    x_max,       \* Fluid.x_max
    y_max,       \* Fluid.y_max
    pc,          \* "idle", the stage of step() to run next, or "halted"
    steps,       \* calls of step() that have returned
    stages,      \* the stages the current (or last) call of step() has entered
    at_call,     \* particles and gravity when step() was last called
    fn,          \* the scalar function applied to the arguments, or "none"
    arg_a,       \* raw value of the scalar argument a
    arg_b,       \* raw value of the scalar argument b
    arg_k,       \* i8 argument
    ret          \* what the function returned

\* the display driver (oled/mod.rs) and its DMA I2C transport (oled/dmai2c.rs)
VARIABLES
    DMA_I2C,          \* the global slot of the DMAi2c interface: an Option
    DMA_I2C_BUF_REF,  \* the global slot of the buffer to transmit: an Option
    dma_i2c,          \* the interrupt handler's static: the interface it owns
    irq_pending,      \* the DMA interrupt is pending (NVIC pend or transfer complete)
    dma_transfer,     \* the transfer DMA channel 2 is carrying out: an Option
    started,          \* the transfers started for the buffer the interface holds
    completed,        \* the buffer the handler finished last, with its transfers: an Option
    sent,             \* the transfer the DMA channel carried out last: an Option
    main_pc,          \* the main thread's position in OLEDDriver::new and the loop
    main_call,        \* calls of DMAi2c::tx made so far, the current one included
    tx_arg,           \* the buffer passed to the current call of DMAi2c::tx, with the call's number
    count,            \* `count` of DMAi2c::tx
    disp_buffer,      \* OLEDDriver.disp_buffer
    draw_buffer,      \* OLEDDriver.draw_buffer
    buffers           \* the data of OLED_BUFFER_1 and OLED_BUFFER_2: their bytes that are not zero

oled_vars == <<DMA_I2C, DMA_I2C_BUF_REF, dma_i2c, irq_pending, dma_transfer, started,
               completed, sent, main_pc, main_call, tx_arg, count, disp_buffer,
               draw_buffer, buffers>>

vars == <<particles, gravity, x_max, y_max, pc, steps, stages, at_call,
          fn, arg_a, arg_b, arg_k, ret, oled_vars>>

fluid_vars == <<particles, gravity, x_max, y_max, pc, steps, stages, at_call>>
scalar_vars == <<fn, arg_a, arg_b, arg_k, ret>>

\* Option<T>: None, or Some of a value
None == << >>
Some(x) == <<x>>

\* the statics of oled/dmai2c.rs and oled/mod.rs before main runs
OledOff ==
    /\ DMA_I2C = None
    /\ DMA_I2C_BUF_REF = None
    /\ dma_i2c = None
    /\ irq_pending = FALSE
    /\ dma_transfer = None
    /\ started = << >>
    /\ completed = None
    /\ sent = None
    /\ main_pc = "off"
    /\ main_call = 0
    /\ tx_arg = [buffer |-> 0, call |-> 0]
    /\ count = 0
    /\ disp_buffer = "none"
    /\ draw_buffer = "none"
    /\ buffers = << >>

\* the state of a Fluid::<n>::new(width, height)
FluidNew(n, width, height) ==
    /\ particles = new_particles(n)
    /\ gravity = from_i8s(0, 0)
    /\ x_max = from_i8(width - 1)
    /\ y_max = from_i8(height - 1)
    /\ pc = "idle"
    /\ steps = 0
    /\ stages = << >>
    /\ at_call = [particles |-> new_particles(n), gravity |-> from_i8s(0, 0)]

ScalarIdle ==
    /\ fn = "none"
    /\ arg_a = 0
    /\ arg_b = 0
    /\ arg_k = 0
    /\ ret = [value |-> 0]

Init ==
    /\ \E n \in 1 .. MaxN : \E d \in Dims : FluidNew(n, d[1], d[2])
    /\ ScalarIdle
    /\ OledOff

----------------------------------------------------------------------------
(* the driver's calls between ticks *)

SetGravity ==
    /\ pc = "idle"
    /\ steps < MaxSteps
    /\ \E g \in Gravities : gravity' = set_gravity(g[1], g[2])
    /\ UNCHANGED <<particles, x_max, y_max, pc, steps, stages, at_call>>
    /\ UNCHANGED scalar_vars
    /\ UNCHANGED oled_vars

\* placement of a particle before the first tick
SetPosition ==
    /\ pc = "idle"
    /\ steps = 0
    /\ \E i \in 1 .. Len(particles) : \E x \in PlaceX : \E y \in PlaceY :
          particles' = [particles EXCEPT ![i] = set_position(@, x, y)]
    /\ UNCHANGED <<gravity, x_max, y_max, pc, steps, stages, at_call>>
    /\ UNCHANGED scalar_vars
    /\ UNCHANGED oled_vars

----------------------------------------------------------------------------
(* step(): one action per stage, in the order of the calls in step() *)

\* a stage that may panic: the program halts, or the call goes on to `next`
StageOutcome(r, next) ==
    IF r.panic
    THEN pc' = "halted" /\ UNCHANGED particles
    ELSE pc' = next /\ particles' = r.value

ApplyGravity ==
    /\ pc = "idle"
    /\ steps < MaxSteps
    /\ at_call' = [particles |-> particles, gravity |-> gravity]
    /\ stages' = <<"apply_gravity">>
    /\ particles' = apply_gravity(particles, gravity)
    /\ pc' = "apply_viscosity"
    /\ UNCHANGED <<gravity, x_max, y_max, steps>>
    /\ UNCHANGED scalar_vars
    /\ UNCHANGED oled_vars

ApplyViscosity ==
    /\ pc = "apply_viscosity"
    /\ stages' = Append(stages, "apply_viscosity")
    /\ StageOutcome(apply_viscosity(particles), "apply_velocity")
    /\ UNCHANGED <<gravity, x_max, y_max, steps, at_call>>
    /\ UNCHANGED scalar_vars
    /\ UNCHANGED oled_vars

ApplyVelocity ==
    /\ pc = "apply_velocity"
    /\ stages' = Append(stages, "apply_velocity")
    /\ particles' = apply_velocity(particles)
    /\ pc' = "double_density_relaxation"
    /\ UNCHANGED <<gravity, x_max, y_max, steps, at_call>>
    /\ UNCHANGED scalar_vars
    /\ UNCHANGED oled_vars

DoubleDensityRelaxation ==
    /\ pc = "double_density_relaxation"
    /\ stages' = Append(stages, "double_density_relaxation")
    /\ StageOutcome(double_density_relaxation(particles), "resolve_collisions")
    /\ UNCHANGED <<gravity, x_max, y_max, steps, at_call>>
    /\ UNCHANGED scalar_vars
    /\ UNCHANGED oled_vars

ResolveCollisions ==
    /\ pc = "resolve_collisions"
    /\ stages' = Append(stages, "resolve_collisions")
    /\ particles' = resolve_collisions(particles, x_max, y_max)
    /\ pc' = "revise_velocity"
    /\ UNCHANGED <<gravity, x_max, y_max, steps, at_call>>
    /\ UNCHANGED scalar_vars
    /\ UNCHANGED oled_vars

ReviseVelocity ==
    /\ pc = "revise_velocity"
    /\ stages' = Append(stages, "revise_velocity")
    /\ particles' = revise_velocity(particles)
    /\ pc' = "idle"
    /\ steps' = steps + 1
    /\ UNCHANGED <<gravity, x_max, y_max, at_call>>
    /\ UNCHANGED scalar_vars
    /\ UNCHANGED oled_vars

Next ==
    \/ SetGravity
    \/ SetPosition
    \/ ApplyGravity
    \/ ApplyViscosity
    \/ ApplyVelocity
    \/ DoubleDensityRelaxation
    \/ ResolveCollisions
    \/ ReviseVelocity

Spec == Init /\ [][Next]_vars

----------------------------------------------------------------------------
(* the scalar functions applied to arguments drawn from bounded sets *)

\* raw values given to the scalar operators: the ends of the i32 range and
\* of the i8 range, values around zero and around the multiply's operand
\* shift, halves, and the whole numbers of the stepper's kernels
RawSamples ==
    {I32_MIN, I32_MIN + 1, -1073741824, -8388608, -65536, -32768, -1792, -256,
     -1, 0, 1, 255, 256, 511, 1791, 1792, 2047, 32768, 65536, 196608, 851968,
     1048576, 8388607, 12345678, 1073741824, I32_MAX}

\* every i8 for the integer argument, every pair of samples for the scalars
ScalarInit ==
    /\ FluidNew(1, 125, 61)
    /\ fn = "none"
    /\ \/ arg_k \in I8 /\ arg_a = 0 /\ arg_b = 0
       \/ arg_k = 0 /\ arg_a \in RawSamples /\ arg_b \in RawSamples
    /\ ret = [value |-> 0]
    /\ OledOff

\* to_i8(from_i8(k))
CallFromI8 ==
    /\ fn = "none"
    /\ fn' = "from_i8"
    /\ ret' = [value |-> from_i8(arg_k), back |-> to_i8(from_i8(arg_k))]
    /\ UNCHANGED <<arg_a, arg_b, arg_k>>
    /\ UNCHANGED fluid_vars
    /\ UNCHANGED oled_vars

\* (a + b) - b
CallAddSub ==
    /\ fn = "none"
    /\ fn' = "add_sub"
    /\ ret' = [value |-> add(arg_a, arg_b), back |-> sub(add(arg_a, arg_b), arg_b)]
    /\ UNCHANGED <<arg_a, arg_b, arg_k>>
    /\ UNCHANGED fluid_vars
    /\ UNCHANGED oled_vars

\* a / b, by the division of fluid.rs and by that of fluid/fixed.rs
CallDiv ==
    /\ fn = "none"
    /\ fn' = "div"
    /\ ret' = [value |-> div(arg_a, arg_b), fixed |-> fixed_div(arg_a, arg_b)]
    /\ UNCHANGED <<arg_a, arg_b, arg_k>>
    /\ UNCHANGED fluid_vars
    /\ UNCHANGED oled_vars

\* magnitude of (a, 0), of (0, a) and of (a, a)
CallMagnitude ==
    /\ fn = "none"
    /\ fn' = "magnitude"
    /\ ret' = [axis_x   |-> magnitude(Vec(arg_a, ZERO)),
               axis_y   |-> magnitude(Vec(ZERO, arg_a)),
               diagonal |-> magnitude(Vec(arg_a, arg_a))]
    /\ UNCHANGED <<arg_a, arg_b, arg_k>>
    /\ UNCHANGED fluid_vars
    /\ UNCHANGED oled_vars

\* to_i8 of a, and get_display_position of a particle standing at (a, b)
CallToI8 ==
    /\ fn = "none"
    /\ fn' = "to_i8"
    /\ ret' = [value   |-> to_i8(arg_a),
               display |-> get_display_position(
                               [Particle_new(0, 0) EXCEPT !.position = Vec(arg_a, arg_b)])]
    /\ UNCHANGED <<arg_a, arg_b, arg_k>>
    /\ UNCHANGED fluid_vars
    /\ UNCHANGED oled_vars

\* a * b and b * a
CallMul ==
    /\ fn = "none"
    /\ fn' = "mul"
    /\ ret' = [value |-> mul(arg_a, arg_b), swapped |-> mul(arg_b, arg_a)]
    /\ UNCHANGED <<arg_a, arg_b, arg_k>>
    /\ UNCHANGED fluid_vars
    /\ UNCHANGED oled_vars

\* two particles for the pair updates: the first two of Fluid::new, the
\* first with the velocity (b, a), the second with the pressures
\* (near b, far a)
PairOfParticles(a, b) ==
    [new_particles(2) EXCEPT ![1].velocity = Vec(b, a),
                             ![2].pressure = NearFar(b, a)]

\* apply_viscosity, lines 389-395, for the pair (1, 2) at distance 3 with
\* the direction (a, b) and the inward radial velocity a
CallViscosityClosing ==
    /\ fn = "none"
    /\ fn' = "viscosity_closing"
    /\ ret' = [before |-> PairOfParticles(arg_a, arg_b),
               value  |-> viscosity_closing(PairOfParticles(arg_a, arg_b), 1, 2,
                                            from_i8(3), Vec(arg_a, arg_b), arg_a).value]
    /\ UNCHANGED <<arg_a, arg_b, arg_k>>
    /\ UNCHANGED fluid_vars
    /\ UNCHANGED oled_vars

\* double_density_relaxation, lines 439-447, for the last particle and its
\* neighbour 1 with the direction (a, b) and one_minus_q = 1: the neighbour
\* is displaced, then the particle itself
CallDisplacement ==
    /\ fn = "none"
    /\ fn' = "displacement"
    /\ ret' = [before |-> PairOfParticles(arg_a, arg_b),
               value  |-> relaxation_next(
                              displacement_toward(PairOfParticles(arg_a, arg_b), VecZERO,
                                                  2, 1, from_i8(1),
                                                  Ok(Vec(arg_a, arg_b))),
                              2).value]
    /\ UNCHANGED <<arg_a, arg_b, arg_k>>
    /\ UNCHANGED fluid_vars
    /\ UNCHANGED oled_vars

ScalarNext ==
    \/ CallFromI8
    \/ CallAddSub
    \/ CallDiv
    \/ CallMagnitude
    \/ CallToI8
    \/ CallMul
    \/ CallViscosityClosing
    \/ CallDisplacement

SpecScalar == ScalarInit /\ [][ScalarNext]_vars

----------------------------------------------------------------------------
(* the display driver and the DMA I2C transport *)

\* bounds of the model: calls of tx_frame, and the value of `count` at which
\* DMAi2c::tx gives up waiting (1_000_000_000 in the source)
MaxFrames == 2
MaxCount == 4

OLED_PAGES == 8
OLED_PAGE_HEADER_SIZE == 7
OLED_PAGE_SIZE == 128 + OLED_PAGE_HEADER_SIZE

\* the lengths of the data of OLED_INIT_CMDS
OLED_INIT_CMDS == <<2, 3, 2, 2, 3, 4, 4, 2, 2, 3, 2, 3, 3, 3, 3, 3, 3, 2>>

\* the I2CBuffer statics: 1 .. 18 are OLED_INIT_CMDS, then the two frame buffers
OLED_BUFFER_1 == Len(OLED_INIT_CMDS) + 1
OLED_BUFFER_2 == Len(OLED_INIT_CMDS) + 2

\* I2CBuffer.data.len() and I2CBuffer.tx_size
BufLen(b) ==
    IF b <= Len(OLED_INIT_CMDS) THEN OLED_INIT_CMDS[b] ELSE OLED_PAGE_SIZE * OLED_PAGES

BufTxSize(b) ==
    IF b <= Len(OLED_INIT_CMDS) THEN 5 ELSE OLED_PAGE_SIZE % 256

\* the DMAi2c struct, without its peripherals
Interface(tx_data, tx_index) == [tx_data |-> tx_data, tx_index |-> tx_index]

\* a reference to an I2CBuffer static as DMAi2c::tx receives it; the number
\* of the call of tx that passed it goes along
BufferRef(b, call) == [buffer |-> b, call |-> call]

\* a transfer programmed by tx_data_addr_len: the buffer, the offset of its
\* first byte in the buffer, the number of bytes
Transfer(data, offset, length) == [data |-> data, offset |-> offset, length |-> length]

\* a length that is always a whole tx_size
transmission_length_whole(len, tx_index, tx_size) == tx_size

\* `min(len - tx_index, tx_size as usize) as u8`
transmission_length(len, tx_index, tx_size) == Min(len - tx_index, tx_size) % 256

\* OLEDDriver::get_display_buffer
get_display_buffer(id) == IF id = "Buffer1" THEN OLED_BUFFER_1 ELSE OLED_BUFFER_2

\* OLEDDriver::get_draw_buffer
get_draw_buffer(id) == IF id = "Buffer1" THEN OLED_BUFFER_1 ELSE OLED_BUFFER_2

\* the data of a frame buffer is kept as the function from the indices of its
\* bytes that are not zero to those bytes; ByteAt reads a byte and WriteByte
\* is the assignment data[i] = v
ByteAt(data, i) == IF i \in DOMAIN data THEN data[i] ELSE 0

WriteByte(data, i, v) ==
    [j \in (IF v = 0 THEN DOMAIN data \ {i} ELSE DOMAIN data \cup {i}) |->
        IF j = i THEN v ELSE data[j]]

\* the seven bytes init_oled_buffer writes at the head of page i
PageHeader(i) == <<128, 176 + i, 128, 16, 128, 0, 64>>

\* the indices of the page headers
HeaderIndices ==
    {i \in 0 .. OLED_PAGE_SIZE * OLED_PAGES - 1 : i % OLED_PAGE_SIZE < OLED_PAGE_HEADER_SIZE}

\* OLEDDriver::init_oled_buffer
init_oled_buffer(data) ==
    LET header(i) == PageHeader(i \div OLED_PAGE_SIZE)[(i % OLED_PAGE_SIZE) + 1]
    IN  [i \in (DOMAIN data \ HeaderIndices) \cup {h \in HeaderIndices : header(h) # 0} |->
            IF i \in HeaderIndices THEN header(i) ELSE data[i]]

\* OLEDDriver::clear, on the data of the draw buffer: data[i] = 0 for every
\* i with i % OLED_PAGE_SIZE >= OLED_PAGE_HEADER_SIZE
clear(data) ==
    [i \in {j \in DOMAIN data : ~(j % OLED_PAGE_SIZE >= OLED_PAGE_HEADER_SIZE)} |-> data[i]]

\* bit `bit` of a byte
BitOf(byte, bit) == (byte \div 2 ^ bit) % 2

\* a usize of the 32-bit target is kept as the i32 with the same bits: the
\* values from 2^31 on are the negative ones. `as usize` of an i8 extends the
\* sign, so -1 becomes 0xFFFF_FFFF
as_usize(v) == IF v >= 0 THEN v % 256 ELSE WrappingSub(0, (-v) % 256)

\* usize `<`
usize_lt(a, b) ==
    IF (a >= 0) = (b >= 0) THEN a < b ELSE a >= 0

\* usize `/ 8` and `% 8`
usize_div8(a) == IF a >= 0 THEN a \div 8 ELSE 536870912 + (a \div 8)
usize_rem8(a) == a % 8

\* an index that leaves out the page header
set_pixel_idx_no_header(x, y) ==
    WrappingAdd(WrappingMul(usize_div8(y), OLED_PAGE_SIZE), x)

\* `idx` of OLEDDriver::set_pixel (usize arithmetic, wrapping where a release
\* build wraps)
set_pixel_idx(x, y) ==
    WrappingAdd(WrappingAdd(WrappingMul(usize_div8(y), OLED_PAGE_SIZE),
                            OLED_PAGE_HEADER_SIZE), x)

\* the bounds check of `buffer.data[idx]`
IndexInBounds(idx) == usize_lt(idx, OLED_PAGE_SIZE * OLED_PAGES)

\* OLEDDriver::set_pixel, on the data of the draw buffer; an idx past the end
\* of the data panics and is kept out by the callers' guards
set_pixel(data, x, y, on) ==
    LET bit == usize_rem8(y)
        idx == set_pixel_idx(x, y)
        byte == ByteAt(data, idx)
    IN  IF on
        THEN WriteByte(data, idx, IF BitOf(byte, bit) = 1 THEN byte ELSE byte + 2 ^ bit)
        ELSE WriteByte(data, idx, IF BitOf(byte, bit) = 1 THEN byte - 2 ^ bit ELSE byte)

\* PIXELS of draw_particle
PIXELS == <<<<1, 0>>, <<2, 0>>,
            <<0, 1>>, <<1, 1>>, <<2, 1>>, <<3, 1>>,
            <<0, 2>>, <<1, 2>>, <<2, 2>>, <<3, 2>>,
            <<1, 3>>, <<2, 3>>>>

\* draw_particle, from the k-th entry of PIXELS on
RECURSIVE draw_particle_from(_, _, _, _)
draw_particle_from(data, x, y, k) ==
    IF k > Len(PIXELS) THEN data
    ELSE draw_particle_from(set_pixel(data, WrappingAdd(x, PIXELS[k][1]),
                                      WrappingAdd(y, PIXELS[k][2]), TRUE),
                            x, y, k + 1)

\* draw_particle of main.rs
draw_particle(data, x, y) == draw_particle_from(data, x, y, 1)

\* the idx of the k-th set_pixel call of draw_particle for a particle whose
\* display position is d: `x as usize`, `x + dx`, then set_pixel
draw_idx(d, k) ==
    set_pixel_idx(WrappingAdd(as_usize(d[1]), PIXELS[k][1]),
                  WrappingAdd(as_usize(d[2]), PIXELS[k][2]))

\* the configuration of main.rs: Fluid::<50>::new(125, 61)
DriverParticles == 50
DriverWidth == 125
DriverHeight == 61

\* display positions of the particle drawn in a frame
DisplaySamples == {<<0, 0>>, <<124, 60>>}

\* main has reached OLEDDriver::new
OledBoot ==
    /\ DMA_I2C = None
    /\ DMA_I2C_BUF_REF = None
    /\ dma_i2c = None
    /\ irq_pending = FALSE
    /\ dma_transfer = None
    /\ started = << >>
    /\ completed = None
    /\ sent = None
    /\ main_pc = "new"
    /\ main_call = 0
    /\ tx_arg = [buffer |-> 0, call |-> 0]
    /\ count = 0
    /\ disp_buffer = "none"
    /\ draw_buffer = "none"
    /\ buffers = [b \in {OLED_BUFFER_1, OLED_BUFFER_2} |-> << >>]

OledInit ==
    /\ FluidNew(1, 125, 61)
    /\ ScalarIdle
    /\ OledBoot

\* DMAi2c::init: the interface is moved to the global slot
DMAi2cInit ==
    /\ main_pc = "new"
    /\ DMA_I2C' = Some(Interface(None, 0))
    /\ main_pc' = "cmd"
    /\ UNCHANGED <<DMA_I2C_BUF_REF, dma_i2c, irq_pending, dma_transfer, started,
                   completed, sent, main_call, tx_arg, count, disp_buffer, draw_buffer>>
    /\ UNCHANGED <<buffers, fluid_vars, scalar_vars>>

\* OLEDDriver::new: the call of DMAi2c::tx for the next init command
TxInitCommand ==
    /\ main_pc = "cmd"
    /\ main_call < Len(OLED_INIT_CMDS)
    /\ tx_arg' = BufferRef(main_call + 1, main_call + 1)
    /\ main_call' = main_call + 1
    /\ count' = 2
    /\ main_pc' = "tx_wait"
    /\ UNCHANGED <<DMA_I2C, DMA_I2C_BUF_REF, dma_i2c, irq_pending, dma_transfer,
                   started, completed, sent, disp_buffer, draw_buffer>>
    /\ UNCHANGED <<buffers, fluid_vars, scalar_vars>>

\* OLEDDriver::new: after the commands the page headers of both buffers are
\* written and the driver is built
NewDriver ==
    /\ main_pc = "cmd"
    /\ main_call = Len(OLED_INIT_CMDS)
    /\ buffers' = [b \in DOMAIN buffers |-> init_oled_buffer(buffers[b])]
    /\ draw_buffer' = "Buffer1"
    /\ disp_buffer' = "Buffer2"
    /\ main_pc' = "draw"
    /\ UNCHANGED <<DMA_I2C, DMA_I2C_BUF_REF, dma_i2c, irq_pending, dma_transfer,
                   started, completed, sent, main_call, tx_arg, count>>
    /\ UNCHANGED <<fluid_vars, scalar_vars>>

\* main: draw_particles before a call of tx_frame, for one particle whose
\* display position is drawn from DisplaySamples
DrawParticles ==
    /\ main_pc = "draw"
    /\ \E p \in DisplaySamples :
          buffers' = [buffers EXCEPT ![get_draw_buffer(draw_buffer)] =
                                         draw_particle(@, p[1], p[2])]
    /\ main_pc' = "frame"
    /\ UNCHANGED <<DMA_I2C, DMA_I2C_BUF_REF, dma_i2c, irq_pending, dma_transfer,
                   started, completed, sent, main_call, tx_arg, count, disp_buffer,
                   draw_buffer>>
    /\ UNCHANGED <<fluid_vars, scalar_vars>>

\* OLEDDriver::tx_frame: swap_buffers, then the call of DMAi2c::tx for the
\* display buffer
TxFrame ==
    /\ main_pc = "frame"
    /\ main_call < Len(OLED_INIT_CMDS) + MaxFrames
    /\ LET swapped == IF disp_buffer = "Buffer1" THEN "Buffer2" ELSE "Buffer1"
       IN  /\ disp_buffer' = swapped
           /\ draw_buffer' = disp_buffer
           /\ tx_arg' = BufferRef(get_display_buffer(swapped), main_call + 1)
    /\ main_call' = main_call + 1
    /\ count' = 2
    /\ main_pc' = "tx_wait"
    /\ UNCHANGED <<DMA_I2C, DMA_I2C_BUF_REF, dma_i2c, irq_pending, dma_transfer,
                   started, completed, sent>>
    /\ UNCHANGED <<buffers, fluid_vars, scalar_vars>>

\* where DMAi2c::tx returns to
TxReturn == IF tx_arg.buffer <= Len(OLED_INIT_CMDS) THEN "cmd" ELSE "clear"

\* DMAi2c::tx, one turn of the wait loop with tx_in_progress() true: the
\* delay loop leaves the even `count` as it found it; past the limit tx
\* returns without transmitting, otherwise count grows by 2
TxInProgress ==
    /\ main_pc = "tx_wait"
    /\ DMA_I2C = None
    /\ IF count > MaxCount
       THEN main_pc' = TxReturn /\ UNCHANGED count
       ELSE count' = count + 2 /\ UNCHANGED main_pc
    /\ UNCHANGED <<DMA_I2C, DMA_I2C_BUF_REF, dma_i2c, irq_pending, dma_transfer,
                   started, completed, sent, main_call, tx_arg, disp_buffer,
                   draw_buffer>>
    /\ UNCHANGED <<buffers, fluid_vars, scalar_vars>>

\* DMAi2c::tx: tx_in_progress() is false and the wait loop ends
TxPossible ==
    /\ main_pc = "tx_wait"
    /\ DMA_I2C # None
    /\ main_pc' = "tx_put"
    /\ UNCHANGED <<DMA_I2C, DMA_I2C_BUF_REF, dma_i2c, irq_pending, dma_transfer,
                   started, completed, sent, main_call, tx_arg, count, disp_buffer,
                   draw_buffer>>
    /\ UNCHANGED <<buffers, fluid_vars, scalar_vars>>

\* DMAi2c::tx: the buffer replaces whatever the global slot holds
TxPut ==
    /\ main_pc = "tx_put"
    /\ DMA_I2C_BUF_REF' = Some(tx_arg)
    /\ main_pc' = "tx_pend"
    /\ UNCHANGED <<DMA_I2C, dma_i2c, irq_pending, dma_transfer, started, completed,
                   sent, main_call, tx_arg, count, disp_buffer, draw_buffer>>
    /\ UNCHANGED <<buffers, fluid_vars, scalar_vars>>

\* DMAi2c::tx: NVIC::pend, and the return
TxPend ==
    /\ main_pc = "tx_pend"
    /\ irq_pending' = TRUE
    /\ main_pc' = TxReturn
    /\ UNCHANGED <<DMA_I2C, DMA_I2C_BUF_REF, dma_i2c, dma_transfer, started,
                   completed, sent, main_call, tx_arg, count, disp_buffer,
                   draw_buffer>>
    /\ UNCHANGED <<buffers, fluid_vars, scalar_vars>>

\* OLEDDriver::tx_frame: clear() of the new draw buffer, and the return to
\* the loop of main
Clear ==
    /\ main_pc = "clear"
    /\ buffers' = [buffers EXCEPT ![get_draw_buffer(draw_buffer)] = clear(@)]
    /\ main_pc' = "draw"
    /\ UNCHANGED <<DMA_I2C, DMA_I2C_BUF_REF, dma_i2c, irq_pending, dma_transfer,
                   started, completed, sent, main_call, tx_arg, count, disp_buffer,
                   draw_buffer>>
    /\ UNCHANGED <<fluid_vars, scalar_vars>>

\* the handler, lines 221-226: the next transfer of the buffer `data` is
\* started; a transfer the channel was still carrying out is cut off
HandlerTransmit(slot, i2c, data, log, length) ==
    /\ dma_transfer' = Some(Transfer(data, i2c.tx_index, length))
    /\ started' = Append(log, Transfer(data, i2c.tx_index, length))
    /\ dma_i2c' = Some(Interface(Some(data), i2c.tx_index + length))
    /\ DMA_I2C' = slot
    /\ UNCHANGED completed

\* the handler, lines 227-247: the transmission is complete; tx_data and
\* tx_index are reset and the interface is swapped back into the global slot
HandlerComplete(slot, data, log) ==
    /\ DMA_I2C' = Some(Interface(None, 0))
    /\ dma_i2c' = slot
    /\ started' = << >>
    /\ completed' = IF data = None THEN completed
                    ELSE Some([data |-> data[1], transfers |-> log])
    /\ UNCHANGED dma_transfer

\* the handler, lines 219-239, with the interface i2c and the buffer `data`
HandlerData(slot, i2c, data, log) ==
    IF data # None /\ i2c.tx_index < BufLen(data[1].buffer)
    THEN HandlerTransmit(slot, i2c, data[1], log,
                         transmission_length(BufLen(data[1].buffer), i2c.tx_index,
                                             BufTxSize(data[1].buffer)))
    ELSE HandlerComplete(slot, data, log)

\* the handler, lines 212-217: the buffer is swapped out of the global slot
\* if the interface holds none
HandlerOwns(slot, i2c) ==
    IF i2c.tx_data = None
    THEN /\ DMA_I2C_BUF_REF' = None
         /\ HandlerData(slot, Interface(DMA_I2C_BUF_REF, i2c.tx_index),
                        DMA_I2C_BUF_REF, << >>)
    ELSE /\ UNCHANGED DMA_I2C_BUF_REF
         /\ HandlerData(slot, i2c, i2c.tx_data, started)

\* the handler after lines 198-203: `owned` is its static and `slot` the
\* global slot
HandlerBody(owned, slot) ==
    IF owned = None
    THEN /\ dma_i2c' = owned
         /\ DMA_I2C' = slot
         /\ UNCHANGED <<DMA_I2C_BUF_REF, dma_transfer, started, completed>>
    ELSE HandlerOwns(slot, owned[1])

\* the interrupt handler: it runs when the interrupt is pending, between two
\* steps of the main thread (whose critical sections are single steps)
DMA1_CH2_3_DMA2_CH1_2 ==
    /\ irq_pending
    /\ irq_pending' = FALSE
    /\ IF dma_i2c = None
       THEN HandlerBody(DMA_I2C, dma_i2c)
       ELSE HandlerBody(dma_i2c, DMA_I2C)
    /\ UNCHANGED <<sent, main_pc, main_call, tx_arg, count, disp_buffer, draw_buffer>>
    /\ UNCHANGED <<buffers, fluid_vars, scalar_vars>>

\* DMA channel 2 has moved the last byte of its transfer: the transfer
\* complete interrupt (tcie) is raised
DmaTransferComplete ==
    /\ dma_transfer # None
    /\ sent' = dma_transfer
    /\ dma_transfer' = None
    /\ irq_pending' = TRUE
    /\ UNCHANGED <<DMA_I2C, DMA_I2C_BUF_REF, dma_i2c, started, completed, main_pc,
                   main_call, tx_arg, count, disp_buffer, draw_buffer>>
    /\ UNCHANGED <<buffers, fluid_vars, scalar_vars>>

OledNext ==
    \/ DMAi2cInit
    \/ TxInitCommand
    \/ NewDriver
    \/ DrawParticles
    \/ TxFrame
    \/ TxInProgress
    \/ TxPossible
    \/ TxPut
    \/ TxPend
    \/ Clear
    \/ DMA1_CH2_3_DMA2_CH1_2
    \/ DmaTransferComplete

SpecOled == OledInit /\ [][OledNext]_vars

----------------------------------------------------------------------------
(* properties *)

\* |a| for a # I32_MIN
Magn(a) == IF a < 0 THEN -a ELSE a

\* the quotient (a * 2^16) / b rounded toward zero, for 0 <= a, 0 < b < 2^23
\* and a \div b < 2^15: long division, one byte of the quotient at a time
WidenedQuotientPos(a, b) ==
    LET q0 == a \div b
        r0 == a % b
        q1 == q0 * 256 + ((r0 * 256) \div b)
        r1 == (r0 * 256) % b
    IN  q1 * 256 + ((r1 * 256) \div b)

\* the arguments for which the quotient above is computed without overflow
Widenable(a, b) ==
    /\ a # I32_MIN
    /\ b # I32_MIN
    /\ b # 0
    /\ Magn(a) < 8388608
    /\ Magn(b) < 8388608
    /\ Magn(a) \div Magn(b) < 32768

\* the raw value (a.raw << 16) / b.raw of a dividend widened by the full
\* fractional width
WidenedQuotient(a, b) ==
    IF (a < 0) = (b < 0)
    THEN WidenedQuotientPos(Magn(a), Magn(b))
    ELSE -WidenedQuotientPos(Magn(a), Magn(b))

\* C3: for scalars a and b with b.raw # 0, and a small enough for the
\* widening, a / b has the raw value (a.raw << 16) / b.raw; this holds of
\* the division the stepper uses and of the one in fluid/fixed.rs.
C3_DivWidensDividend ==
    (fn = "div" /\ Widenable(arg_a, arg_b)) =>
        /\ ret.value = Ok(WidenedQuotient(arg_a, arg_b))
        /\ ret.fixed = Ok(WidenedQuotient(arg_a, arg_b))

\* C9: for every i8 k, to_i8(from_i8(k)) = k and from_i8(k) has the raw
\* value k * 2^16.
C9_IntegerRoundTrip ==
    fn = "from_i8" => (ret.back = arg_k /\ ret.value = arg_k * 65536)

C9_Witness == fn = "from_i8" /\ arg_k = -128 /\ ret.back = -128

\* C10: for any raw values a and b, with add and sub wrapping modulo 2^32,
\* (a + b) - b = a.
C10_AddSubExact ==
    fn = "add_sub" => ret.back = arg_a

\* the sum wrapped, and the subtraction brought it back
C10_Witness ==
    fn = "add_sub" /\ arg_a = I32_MAX /\ arg_b = 1 /\ ret.value = I32_MIN

----------------------------------------------------------------------------
(* exact arithmetic on natural numbers of any width, for the bounds the     *)
(* claims state: a number is the sequence of its base-256 digits, least     *)
(* significant first                                                        *)

\* the four digits of 0 <= a < 2^31
Digits4(a) == <<a % 256, (a \div 256) % 256, (a \div 65536) % 256, (a \div 16777216) % 256>>

\* the two digits of 0 <= a < 2^16
Digits2(a) == <<a % 256, (a \div 256) % 256>>

\* the sum of x[i] * y[k + 1 - i] over i .. Len(x)
RECURSIVE ColumnSum(_, _, _, _)
ColumnSum(x, y, k, i) ==
    IF i > Len(x) THEN 0
    ELSE (IF (k + 1 - i) \in 1 .. Len(y) THEN x[i] * y[k + 1 - i] ELSE 0)
         + ColumnSum(x, y, k, i + 1)

\* the n digits of the number whose columns, from column k on, are the
\* column sums of x and y, with carry c coming in
RECURSIVE CarryColumns(_, _, _, _, _)
CarryColumns(x, y, k, c, n) ==
    IF k > n THEN << >>
    ELSE <<(ColumnSum(x, y, k, 1) + c) % 256>>
         \o CarryColumns(x, y, k + 1, (ColumnSum(x, y, k, 1) + c) \div 256, n)

\* the product of two numbers, Len(x) + Len(y) digits
DigitsMul(x, y) == CarryColumns(x, y, 1, 0, Len(x) + Len(y))

\* x <= y for two numbers of the same number of digits, decided from digit k down
RECURSIVE DigitsLeqFrom(_, _, _)
DigitsLeqFrom(x, y, k) ==
    IF k = 0 THEN TRUE
    ELSE IF x[k] # y[k] THEN x[k] < y[k]
    ELSE DigitsLeqFrom(x, y, k - 1)

DigitsLeq(x, y) == DigitsLeqFrom(x, y, Len(x))

\* the digits 3 .. 6 of an eight-digit number as an integer, when the number
\* divided by 2^16 is below 2^31
DigitsShr16(d) == d[3] + d[4] * 256 + d[5] * 65536 + d[6] * 16777216

\* the low four digits as an i32
DigitsLowI32(d) == FromBytes(d[4], d[3], d[2], d[1])

\* C11 (as stated): for any representable scalar L, magnitude of (L, 0) and
\* of (0, L) equal L exactly.
C11_AxisMagnitudeIsL ==
    fn = "magnitude" => (ret.axis_x = arg_a /\ ret.axis_y = arg_a)

\* C11 (amended): for any scalar L above i32::MIN, magnitude of (L, 0) and of
\* (0, L) equal |L| exactly, hence L itself when L >= 0.
C11_AxisMagnitudeIsAbs ==
    (fn = "magnitude" /\ arg_a # I32_MIN) =>
        (ret.axis_x = Magn(arg_a) /\ ret.axis_y = Magn(arg_a))

\* a negative length, whose magnitude is its negation
C11_Witness ==
    fn = "magnitude" /\ arg_a = -65536 /\ ret.axis_x = 65536 /\ ret.axis_y = 65536

\* 625 * m^2 and c * l^2 for 0 <= m, l < 2^31 and 0 <= c < 2^16: ten digits each
ScaledSquare(v, c) == DigitsMul(DigitsMul(Digits4(v), Digits4(v)), Digits2(c))

\* 0.96 * sqrt(2) * l <= m <= 1.04 * sqrt(2) * l for 0 <= l, that is
\* 0.9216 * 2 * l^2 <= m^2 <= 1.0816 * 2 * l^2 with m >= 0, the three
\* multiplied by 625
WithinFourPercent(m, l) ==
    /\ m >= 0
    /\ DigitsLeq(ScaledSquare(l, 1152), ScaledSquare(m, 625))
    /\ DigitsLeq(ScaledSquare(m, 625), ScaledSquare(l, 1352))

\* C12 (as stated): for every representable scalar L, raw values below 2^8
\* included, magnitude of (L, L) lies within 4% of |L| * sqrt(2).
C12_DiagonalWithinFourPercent ==
    (fn = "magnitude" /\ arg_a # I32_MIN) =>
        WithinFourPercent(ret.diagonal, Magn(arg_a))

\* the raw values for which the multiply keeps enough of the smaller
\* component and the sum does not leave the i32 range
C12_Range == 1792 .. 1073741824

\* C12 (amended): for every scalar L with 1792 <= |L.raw| <= 2^30, magnitude
\* of (L, L) lies within 4% of |L| * sqrt(2).
C12_DiagonalWithinFourPercentInRange ==
    (fn = "magnitude" /\ arg_a # I32_MIN /\ Magn(arg_a) \in C12_Range) =>
        WithinFourPercent(ret.diagonal, Magn(arg_a))

\* the diagonal of the smallest raw value of the range: 1792 + 7 * 106
C12_Witness ==
    fn = "magnitude" /\ arg_a = 1792 /\ ret.diagonal = 2534

\* the scalars whose value lies in [-128, 128)
InI8Range(a) == -8388608 <= a /\ a <= 8388607

\* C13: to_i8 returns floor(raw / 2^16) for every scalar whose value lies in
\* [-128, 128), rounding toward negative infinity, and get_display_position
\* returns the pair of the floors of the position's coordinates.
C13_ToI8IsFloor ==
    fn = "to_i8" =>
        /\ InI8Range(arg_a) => ret.value = arg_a \div 65536
        /\ (InI8Range(arg_a) /\ InI8Range(arg_b)) =>
               ret.display = <<arg_a \div 65536, arg_b \div 65536>>

\* -0.5 goes to -1, and a particle at (-0.5, 0.5) is displayed at (-1, 0)
C13_Witness ==
    /\ fn = "to_i8"
    /\ arg_a = -32768
    /\ arg_b = 32768
    /\ ret.value = -1
    /\ ret.display = <<-1, 0>>

\* the product of the shifted operands, modulo 2^32: the product of their
\* magnitudes, negated when the signs differ
ShiftedProduct(x, y) ==
    IF (x < 0) = (y < 0)
    THEN DigitsLowI32(DigitsMul(Digits4(Magn(x)), Digits4(Magn(y))))
    ELSE WrappingNeg(DigitsLowI32(DigitsMul(Digits4(Magn(x)), Digits4(Magn(y)))))

\* floor(a.raw * b.raw / 2^16) is representable, for a, b >= 0
ExactProductFits(d) == d[8] = 0 /\ d[7] = 0 /\ d[6] < 128

\* the result is not negative and is at most floor(a.raw * b.raw / 2^16),
\* d being the digits of a.raw * b.raw
AtMostExactProduct(r, d) == ExactProductFits(d) => (0 <= r /\ r <= DigitsShr16(d))

\* C18: a * b has the raw value (a.raw >> 8) * (b.raw >> 8) with arithmetic
\* shifts; a * b = b * a; and for non-negative operands whose exact product
\* is representable the result has not overflowed and is at most
\* floor(a.raw * b.raw / 2^16).
C18_MulShiftsOperands ==
    fn = "mul" =>
        /\ ret.value = ShiftedProduct(arg_a \div 256, arg_b \div 256)
        /\ ret.value = ret.swapped
        /\ (arg_a >= 0 /\ arg_b >= 0) =>
               AtMostExactProduct(ret.value, DigitsMul(Digits4(arg_a), Digits4(arg_b)))

\* a product that lost the low bits of an operand: 511 * 2^16 / 2^16 is 511
C18_Witness ==
    fn = "mul" /\ arg_a = 511 /\ arg_b = 65536 /\ ret.value = 256 /\ ret.swapped = 256

----------------------------------------------------------------------------
(* properties of the stepper *)

\* a step() has returned
Stepped == pc = "idle" /\ steps >= 1

\* C1: after any number of step() calls every particle's position lies in
\* [0, x_max] x [0, y_max].
C1_BoundaryContainment ==
    Stepped =>
        \A i \in 1 .. Len(particles) :
            /\ ZERO <= particles[i].position.x
            /\ particles[i].position.x <= x_max
            /\ ZERO <= particles[i].position.y
            /\ particles[i].position.y <= y_max

\* a particle that was beyond the right wall when step() was called has
\* been put on it
C1_Witness ==
    /\ Stepped
    /\ \E i \in 1 .. Len(particles) :
          /\ at_call.particles[i].position.x > x_max
          /\ particles[i].position.x = x_max

\* C2: step() never divides by a zero scalar: a pair at distance zero is
\* skipped before the unit direction is taken.
C2_NoDivisionByZero == pc # "halted"

\* the first call of step() on two particles placed at (0, 0) and (3, 0),
\* at rest and without gravity, has run its relaxation stage
C4_Scenario ==
    /\ steps = 0
    /\ pc = "resolve_collisions"
    /\ Len(at_call.particles) = 2
    /\ at_call.gravity = VecZERO
    /\ at_call.particles[1].position = from_i8s(0, 0)
    /\ at_call.particles[2].position = from_i8s(3, 0)
    /\ at_call.particles[1].velocity = VecZERO
    /\ at_call.particles[2].velocity = VecZERO

\* C4: in that scenario the distance is exactly 3, one_minus_q is 0.8125
\* (raw 53248), and the first particle's far and near densities are within
\* 2^-8 (raw 256) of 0.8125^2 (raw 43264) and 0.8125^3 (raw 35152).
C4_DensityOfScenario ==
    C4_Scenario =>
        LET distance == distance_to(at_call.particles[1].position,
                                    at_call.particles[2].position)
        IN  /\ distance = from_i8(3)
            /\ one_minus_q_of(distance) = 53248
            /\ Magn(particles[1].density.far - 43264) <= 256
            /\ Magn(particles[1].density.near - 35152) <= 256

\* the two particles of the last call of step(), where they stood when it
\* was called and where integration alone puts them
C5_Before(i) == at_call.particles[i].position
C5_Integrated(i) ==
    vec_add(at_call.particles[i].position, vec_mul(at_call.particles[i].velocity, dt))

C5_FarApart ==
    /\ Len(particles) = 2
    /\ at_call.gravity = VecZERO
    /\ distance_to(C5_Before(1), C5_Before(2)) > particle_interaction_radius
    /\ distance_to(C5_Integrated(1), C5_Integrated(2)) > particle_interaction_radius

\* C5: two particles farther apart than the interaction radius before and
\* after integration, without gravity: after one step() each stands at its
\* own position plus its own velocity * dt, clamped.
C5_NoLongRangeForce ==
    (Stepped /\ C5_FarApart) =>
        \A i \in 1 .. 2 :
            particles[i].position =
                Vec(clamp(C5_Integrated(i).x, x_max), clamp(C5_Integrated(i).y, y_max))

\* such a step has moved a particle that had a velocity
C5_Witness ==
    /\ Stepped
    /\ C5_FarApart
    /\ \E i \in 1 .. 2 :
          /\ at_call.particles[i].velocity # VecZERO
          /\ particles[i].position # at_call.particles[i].position

\* the stages of step() in the order of its calls
SixStages ==
    <<"apply_gravity", "apply_viscosity", "apply_velocity",
      "double_density_relaxation", "resolve_collisions", "revise_velocity">>

Positions(ps) == [i \in 1 .. Len(ps) |-> ps[i].position]

\* C6: every call of step() runs the six stages once each and in order, none
\* skipped, and no stage after the collision clamp modifies a position.
C6_SixStagesEveryCall ==
    /\ [](((pc = "idle" /\ steps >= 1) \/ pc = "halted") => stages = SixStages)
    /\ [][pc = "revise_velocity" => Positions(particles') = Positions(particles)]_vars

\* C7: after every step() previous_position is the position at the call and
\* velocity is the quotient of (position - previous_position) by dt, with
\* the dividend widened by the fractional width.
C7_VelocityIsQuotient ==
    Stepped =>
        \A i \in 1 .. Len(particles) :
            LET displacement == vec_sub(particles[i].position,
                                        particles[i].previous_position)
            IN  /\ particles[i].previous_position = at_call.particles[i].position
                /\ particles[i].velocity =
                       Vec(WidenedQuotient(displacement.x, dt),
                           WidenedQuotient(displacement.y, dt))

\* the sign of an integer
Sgn(a) == IF a > 0 THEN 1 ELSE IF a < 0 THEN -1 ELSE 0

\* |a| * |b| for two i32 above i32::MIN, eight digits
MagnProduct(a, b) == DigitsMul(Digits4(Magn(a)), Digits4(Magn(b)))

\* ax * bx + ay * by > 0, exactly, the terms having the signs sx and sy
DotPositiveBySign(sx, sy, ax, bx, ay, by) ==
    IF sx >= 0 /\ sy >= 0 THEN sx + sy > 0
    ELSE IF sx <= 0 /\ sy <= 0 THEN FALSE
    ELSE IF sx > 0 THEN ~DigitsLeq(MagnProduct(ax, bx), MagnProduct(ay, by))
    ELSE ~DigitsLeq(MagnProduct(ay, by), MagnProduct(ax, bx))

\* the dot product of two vectors of raw values is positive
DotPositive(v, w) ==
    DotPositiveBySign(Sgn(v.x) * Sgn(w.x), Sgn(v.y) * Sgn(w.y), v.x, w.x, v.y, w.y)

\* the particles as apply_viscosity of the current call found them: gravity
\* has been added to the velocities the call started with
BeforeViscosity == apply_gravity(at_call.particles, at_call.gravity)

\* apply_viscosity of the current call has returned
ViscosityDone == pc = "apply_velocity"

\* the pair (i, j) of ps is apart, within the interaction radius
Neighbours(ps, i, j) ==
    /\ ps[i].position # ps[j].position
    /\ WithinRadius(distance_to(ps[i].position, ps[j].position))

\* the approach speed of the pair is positive: the difference of the
\* velocities has a positive component along the direction from i to j (the
\* distance being positive, the sign is that of the dot product with the
\* vector from i to j)
Closing(ps, i, j) ==
    DotPositive(Vec(ps[i].velocity.x - ps[j].velocity.x,
                    ps[i].velocity.y - ps[j].velocity.y),
                Vec(ps[j].position.x - ps[i].position.x,
                    ps[j].position.y - ps[i].position.y))

\* C14: in the viscosity stage a pair (i, j), i < j, within the interaction
\* radius has its velocities changed if and only if its approach speed, the
\* dot product of the difference of the velocities with the unit direction
\* from i to j, is positive: a particle of no closing pair keeps its
\* velocity, and a closing pair does not keep both of its velocities.
C14_ViscosityActsOnClosingPairs ==
    ViscosityDone =>
        /\ \A i \in 1 .. Len(particles) :
              (\A j \in (1 .. Len(particles)) \ {i} :
                  ~(/\ Neighbours(BeforeViscosity, i, j)
                    /\ Closing(BeforeViscosity, Min(i, j), Max(i, j))))
              => particles[i].velocity = BeforeViscosity[i].velocity
        /\ \A i \in 1 .. Len(particles) : \A j \in (i + 1) .. Len(particles) :
              (Neighbours(BeforeViscosity, i, j) /\ Closing(BeforeViscosity, i, j))
              => \/ particles[i].velocity # BeforeViscosity[i].velocity
                 \/ particles[j].velocity # BeforeViscosity[j].velocity

\* the componentwise sum, modulo 2^32, of the vectors of a sequence
RECURSIVE VecSum(_, _)
VecSum(vs, k) == IF k = 0 THEN VecZERO ELSE vec_add(VecSum(vs, k - 1), vs[k])

Velocities(ps) == [i \in 1 .. Len(ps) |-> ps[i].velocity]

MomentumOf(ps) == VecSum(Velocities(ps), Len(ps))

\* the viscosity stage of a call of step(), over its particles as found,
\* keeps the sum of the velocities and every position
C15_StageKeepsMomentum ==
    ViscosityDone =>
        /\ MomentumOf(particles) = MomentumOf(BeforeViscosity)
        /\ Positions(particles) = Positions(BeforeViscosity)

\* C15: for a pair the viscosity stage touches, what is subtracted from
\* particle i's velocity is exactly what is added to particle j's, so the
\* componentwise sum of the velocities is the same before and after, and no
\* position changes.
C15_ViscosityPreservesMomentum ==
    fn = "viscosity_closing" =>
        /\ vec_sub(ret.before[1].velocity, ret.value[1].velocity)
               = vec_sub(ret.value[2].velocity, ret.before[2].velocity)
        /\ MomentumOf(ret.value) = MomentumOf(ret.before)
        /\ Positions(ret.value) = Positions(ret.before)

\* a pair closing at 1.0 along (1.0, 1.0) has exchanged a half impulse
C15_Witness ==
    /\ fn = "viscosity_closing"
    /\ arg_a = 65536
    /\ arg_b = 65536
    /\ ret.value[2].velocity # ret.before[2].velocity
    /\ ret.value[1].velocity # ret.before[1].velocity

\* C16: for a pair the relaxation stage processes, the half impulse added to
\* particle j's position is exactly what is subtracted from particle i's, so
\* the componentwise sum of the positions is the same before and after, and
\* no velocity changes.
C16_RelaxationDisplacesSymmetrically ==
    fn = "displacement" =>
        /\ vec_sub(ret.before[2].position, ret.value[2].position)
               = vec_sub(ret.value[1].position, ret.before[1].position)
        /\ VecSum(Positions(ret.value), 2) = VecSum(Positions(ret.before), 2)
        /\ Velocities(ret.value) = Velocities(ret.before)

\* with pressures (1.0, 1.0) along (1.0, 1.0) both particles have moved
C16_Witness ==
    /\ fn = "displacement"
    /\ arg_a = 65536
    /\ arg_b = 65536
    /\ ret.value[1].position # ret.before[1].position
    /\ ret.value[2].position # ret.before[2].position

\* the relaxation stage of a call of step(), when it returns, has kept the
\* sum of the positions and every velocity
C16_StageKeepsPositionSum ==
    [][(pc = "double_density_relaxation" /\ pc' = "resolve_collisions") =>
          /\ VecSum(Positions(particles'), Len(particles))
                 = VecSum(Positions(particles), Len(particles))
          /\ Velocities(particles') = Velocities(particles)]_vars

\* C17: after every step() each particle's pressure is derived from its
\* density, far = stiffness.far * (density.far - target_density) and
\* near = stiffness.near * density.near, and at all times density.near,
\* density.far and pressure.near are not negative.
C17_PressureFromDensity ==
    /\ Stepped =>
          \A i \in 1 .. Len(particles) :
              /\ particles[i].pressure.far =
                     mul(stiffness.far, sub(particles[i].density.far, target_density))
              /\ particles[i].pressure.near =
                     mul(stiffness.near, particles[i].density.near)
    /\ \A i \in 1 .. Len(particles) :
          /\ particles[i].density.near >= ZERO
          /\ particles[i].density.far >= ZERO
          /\ particles[i].pressure.near >= ZERO

\* a step() has returned that found two neighbours: the far pressure is
\* that of a density below the target
C17_Witness ==
    /\ Stepped
    /\ Len(particles) = 2
    /\ Neighbours(particles, 1, 2)
    /\ particles[1].pressure.far = mul(stiffness.far, sub(ZERO, target_density))
    /\ particles[1].pressure.far < ZERO

----------------------------------------------------------------------------
(* properties of the DMA I2C transport *)

\* the k-th transfer of a buffer of length len sent tx_size bytes at a time
ChunkOffset(k, tx_size) == (k - 1) * tx_size
ChunkLength(k, len, tx_size) ==
    IF len - ChunkOffset(k, tx_size) < tx_size
    THEN len - ChunkOffset(k, tx_size)
    ELSE tx_size

\* the transfers ts are the first Len(ts) chunks of the buffer `data`: they
\* start at 0, tx_size, 2 * tx_size, ... inside the buffer, each as long as
\* tx_size or as what is left
FirstChunks(ts, data) ==
    \A k \in 1 .. Len(ts) :
        /\ ts[k].data = data
        /\ ts[k].offset = ChunkOffset(k, BufTxSize(data.buffer))
        /\ ts[k].offset < BufLen(data.buffer)
        /\ ts[k].length = ChunkLength(k, BufLen(data.buffer), BufTxSize(data.buffer))

\* the bytes the transfers ts cover, ts being first chunks
BytesCovered(ts) == IF ts = << >> THEN 0 ELSE ts[Len(ts)].offset + ts[Len(ts)].length

\* the transfers ts cover every byte of the buffer
AllChunks(ts, data) == FirstChunks(ts, data) /\ BytesCovered(ts) = BufLen(data.buffer)

\* the interface holds a buffer whose transfers so far are its first chunks,
\* and tx_index is the number of bytes they cover
InterfaceChunked(i2c) ==
    i2c.tx_data # None =>
        /\ BufTxSize(i2c.tx_data[1].buffer) >= 1
        /\ FirstChunks(started, i2c.tx_data[1])
        /\ i2c.tx_index = BytesCovered(started)
        /\ i2c.tx_index <= BufLen(i2c.tx_data[1].buffer)

\* a step of the interrupt handler
HandlerStep == irq_pending /\ ~irq_pending'

\* the handler owns an interface whose buffer has been started to its end
LastChunkStarted ==
    /\ dma_i2c # None
    /\ dma_i2c[1].tx_data # None
    /\ dma_i2c[1].tx_index >= BufLen(dma_i2c[1].tx_data[1].buffer)

\* C19: for a buffer of length L and tx_size S >= 1 taken by the handler,
\* successive invocations start transfers at offsets 0, S, 2S, ... of length
\* min(L - offset, S) each, covering every byte once and in order; tx_index
\* never exceeds L; the invocation after the last chunk resets tx_data to
\* None and tx_index to 0 and returns the interface to the global slot.
C19_ChunksCoverBuffer ==
    /\ [](/\ dma_i2c # None => InterfaceChunked(dma_i2c[1])
          /\ DMA_I2C # None => DMA_I2C[1] = Interface(None, 0)
          /\ completed # None => AllChunks(completed[1].transfers, completed[1].data))
    /\ [][(HandlerStep /\ LastChunkStarted) =>
             /\ DMA_I2C' = Some(Interface(None, 0))
             /\ dma_i2c' = None
             /\ completed' = Some([data |-> dma_i2c[1].tx_data[1],
                                   transfers |-> started])]_vars

\* a frame buffer has gone out in eight transfers of a page each and the
\* interface is back in the global slot
C19_Witness ==
    /\ completed # None
    /\ completed[1].data.buffer = OLED_BUFFER_1
    /\ Len(completed[1].transfers) = OLED_PAGES
    /\ completed[1].transfers[OLED_PAGES].offset = 7 * OLED_PAGE_SIZE
    /\ DMA_I2C = Some(Interface(None, 0))
    /\ dma_i2c = None

\* the transfer t follows the transfer carried out before it, if any, in the
\* order of the calls of tx: it is the next chunk of the same call, or the
\* first chunk of the next call after the last chunk of the call before
FollowsInCallOrder(prev, t) ==
    IF prev = None THEN t.data.call = 1 /\ t.offset = 0
    ELSE \/ /\ t.data = prev[1].data
            /\ t.offset = prev[1].offset + prev[1].length
         \/ /\ t.data.call = prev[1].data.call + 1
            /\ t.offset = 0
            /\ prev[1].offset + prev[1].length = BufLen(prev[1].data.buffer)

\* main has made its last call of tx and nothing is left to happen
OledQuiescent ==
    /\ main_pc = "frame"
    /\ main_call = Len(OLED_INIT_CMDS) + MaxFrames
    /\ ~irq_pending
    /\ dma_transfer = None

\* C20: under any interleaving of the main thread and the interrupt, tx
\* places its buffer in the shared slot only when the slot is empty, the
\* transfers carried out are the chunks of the buffers passed to tx, each
\* once, in full and in call order, and when all is done the last chunk of
\* the last call has gone out.
C20_EveryBufferSentInOrder ==
    /\ [][(main_pc = "tx_put" /\ main_pc' = "tx_pend") => DMA_I2C_BUF_REF = None]_vars
    /\ [][(dma_transfer # None /\ dma_transfer' = None) =>
             FollowsInCallOrder(sent, dma_transfer[1])]_vars
    /\ [](OledQuiescent =>
             /\ sent # None
             /\ sent[1].data.call = main_call
             /\ sent[1].offset + sent[1].length = BufLen(sent[1].data.buffer))

(* properties of the frame buffers *)

\* the handler's interface holds buffer b, or DMA channel 2 is carrying out
\* a transfer of it
TransmissionInProgress(b) ==
    \/ /\ dma_i2c # None
       /\ dma_i2c[1].tx_data # None
       /\ dma_i2c[1].tx_data[1].buffer = b
    \/ /\ dma_transfer # None
       /\ dma_transfer[1].data.buffer = b

\* the steps of main: the call of tx in tx_frame, clear, and draw_particles
TxFrameStep == main_pc = "frame" /\ main_pc' = "tx_wait"
ClearStep == main_pc = "clear" /\ main_pc' = "draw"
DrawStep == main_pc = "draw" /\ main_pc' = "frame"

\* data has no pixel set and the page headers of `before`
ClearedFrom(before, data) ==
    \A i \in 0 .. OLED_PAGE_SIZE * OLED_PAGES - 1 :
        IF i % OLED_PAGE_SIZE < OLED_PAGE_HEADER_SIZE
        THEN ByteAt(data, i) = ByteAt(before, i)
        ELSE ByteAt(data, i) = 0

\* tx_frame passes to tx the buffer that was the draw buffer, swaps the two
\* buffers, clears the new draw buffer and leaves the other one alone; the two
\* ids of the driver differ
C21_FrameSwapsAndClears ==
    /\ [][TxFrameStep =>
             /\ tx_arg'.buffer = get_draw_buffer(draw_buffer)
             /\ disp_buffer' = draw_buffer
             /\ draw_buffer' = disp_buffer]_vars
    /\ [][ClearStep =>
             /\ get_draw_buffer(draw_buffer) # tx_arg.buffer
             /\ ClearedFrom(buffers[get_draw_buffer(draw_buffer)],
                            buffers'[get_draw_buffer(draw_buffer)])
             /\ buffers'[tx_arg.buffer] = buffers[tx_arg.buffer]]_vars
    /\ [](disp_buffer # "none" =>
             {disp_buffer, draw_buffer} = {"Buffer1", "Buffer2"})

\* C21: tx_frame hands over the buffer that was the draw buffer, swaps the
\* buffers and clears the new draw buffer, draw_buffer and disp_buffer always
\* name different buffers, and neither clear nor set_pixel ever writes to a
\* buffer whose transmission is in progress.
C21_DrawBufferNeverInTransmission ==
    /\ C21_FrameSwapsAndClears
    /\ [][(ClearStep \/ DrawStep) =>
             ~TransmissionInProgress(get_draw_buffer(draw_buffer))]_vars

(* properties of draw_particles *)

\* every set_pixel call of draw_particle for the display position d has its
\* idx inside the buffer and past the header of its page
DrawnInsideBuffer(d) ==
    \A k \in 1 .. Len(PIXELS) :
        /\ IndexInBounds(draw_idx(d, k))
        /\ draw_idx(d, k) % OLED_PAGE_SIZE >= OLED_PAGE_HEADER_SIZE

\* the display position d lies on the part of the display the driver's fluid
\* covers
OnDisplay(d) ==
    /\ 0 <= d[1] /\ d[1] <= DriverWidth - 1
    /\ 0 <= d[2] /\ d[2] <= DriverHeight - 1

\* the initial frame of the driver's fluid
InitialFrameInside ==
    \A i \in 1 .. DriverParticles :
        /\ OnDisplay(get_display_position(new_particles(DriverParticles)[i]))
        /\ DrawnInsideBuffer(get_display_position(new_particles(DriverParticles)[i]))

\* step() has returned on a fluid built with the driver's dimensions
SteppedInDriverBox ==
    /\ Stepped
    /\ x_max = from_i8(DriverWidth - 1)
    /\ y_max = from_i8(DriverHeight - 1)

\* C22: with the driver's configuration every particle's display position
\* has 0 <= x <= 124 and 0 <= y <= 60 at the initial frame and after every
\* step(), and every set_pixel call of draw_particles computes an index inside
\* the 1080-byte buffer that is not one of a page's 7 header bytes.
C22_DrawIndicesInsideBuffer ==
    /\ InitialFrameInside
    /\ SteppedInDriverBox =>
          \A i \in 1 .. Len(particles) :
              /\ OnDisplay(get_display_position(particles[i]))
              /\ DrawnInsideBuffer(get_display_position(particles[i]))

\* after a step() a particle stands on the right wall, and the pixel of its
\* stamp furthest to the right is the last byte of page 0
C22_Witness ==
    /\ SteppedInDriverBox
    /\ \E i \in 1 .. Len(particles) :
          /\ get_display_position(particles[i]) = <<DriverWidth - 1, 0>>
          /\ draw_idx(get_display_position(particles[i]), 6) = OLED_PAGE_SIZE - 1

====
